---- MODULE Spec2Model ----
(***************************************************************************)
(* A model of the FastAPI RAG service: the route handlers of routes.py,    *)
(* the VectorStore adapter (vector_store.py), the PDFProcessor file        *)
(* handling (pdf_processor.py) and RAGService.query (rag_service.py).      *)
(*                                                                         *)
(* Every route is an `async def`; the only await inside a handler body are *)
(* `await file.read()` (before any shared state is touched) and            *)
(* `await self.agent.run(prompt)`.  A handler therefore runs atomically on *)
(* the event loop except for an upload, which is split at file.read, and   *)
(* for a query, which is split at agent.run.  Other handlers run between   *)
(* the two parts of an upload and between the two parts of a query.  The   *)
(* part of a query before agent.run is followed through its two positions, *)
(* before and behind the search, with no other handler running in between. *)
(***************************************************************************)
EXTENDS Integers, Sequences, FiniteSets, Bags, TLC

----------------------------------------------------------------------------
(* Bounds of the model.                                                    *)

\* number of POST /query requests that can be in flight at once
NumQueries == 3
\* longest sentence list a processed PDF yields
MaxChunks == 2
\* number of POST /upload requests that can wait for their body at once
MaxUploads == 1

----------------------------------------------------------------------------
(* Program constants.                                                      *)

retrieval_top_k == 5
\* settings.concurrency
concurrency == 10
top_k_ge == 1
top_k_le == 20
max_upload_size == 10 * 1024 * 1024

----------------------------------------------------------------------------
(* Values.  Python's None / Optional[int] is the empty set / a singleton.  *)

None == {}
Some(x) == {x}
Val(o) == CHOOSE x \in o : TRUE

Queries == 1..NumQueries

\* strings that the code takes apart or builds are sequences of characters
DOT_PDF == <<".", "p", "d", "f">>
A_PDF == <<"a">> \o DOT_PDF
B_PDF == <<"b">> \o DOT_PDF
A_TXT == <<"a", ".", "t", "x", "t">>
NoName == <<>>
UploadNames == {A_PDF, B_PDF, A_TXT}
PathNames == {A_PDF, B_PDF}

\* the sentences of a chunk
Texts == {"x", "y"}
SeqsUpTo(S, n) == UNION {[1..k -> S] : k \in 0..n}
Docs == SeqsUpTo(Texts, MaxChunks) \ {<<>>}

\* uuid.uuid4().hex[:8]: a random draw of eight hexadecimal digits; any value
\* of the set can come out of any draw, one drawn before included
Hexes == {<<"0", "0", "0", "0", "0", "0", "7", "e">>,
          <<"c", "0", "f", "f", "e", "e", "1", "2">>}

\* an uploaded body: its length, whether pypdf can read it, and the sentences
\* its extracted text splits into (none when the PDF holds no text)
Contents ==
    {[size |-> max_upload_size + 1, readable |-> TRUE, sentences |-> <<>>],
     [size |-> max_upload_size, readable |-> FALSE, sentences |-> <<>>],
     [size |-> max_upload_size, readable |-> TRUE, sentences |-> <<>>]}
    \cup {[size |-> max_upload_size, readable |-> TRUE, sentences |-> d] : d \in Docs}

\* the top_k values a caller sends
TopKs == {None, Some(top_k_ge - 1), Some(top_k_ge), Some(top_k_le), Some(top_k_le + 1)}

----------------------------------------------------------------------------
(* String helpers.                                                         *)

endswith(s, suffix) ==
    /\ Len(s) >= Len(suffix)
    /\ SubSeq(s, Len(s) - Len(suffix) + 1, Len(s)) = suffix

Digit(d) ==
    CASE d = 0 -> "0" [] d = 1 -> "1" [] d = 2 -> "2" [] d = 3 -> "3" [] d = 4 -> "4"
      [] d = 5 -> "5" [] d = 6 -> "6" [] d = 7 -> "7" [] d = 8 -> "8" [] d = 9 -> "9"

RECURSIVE Str(_)
\* str(i) of a non-negative int, as an f-string formats it
Str(i) == IF i < 10 THEN <<Digit(i)>> ELSE Str(i \div 10) \o <<Digit(i % 10)>>

\* position of the last "." of a name, 0 when there is none
LastDot(s) ==
    LET P == {i \in 1..Len(s) : s[i] = "."}
    IN IF P = {} THEN 0 ELSE CHOOSE i \in P : \A j \in P : j <= i

\* position of the last "/" of a path, 0 when there is none
LastSlash(s) ==
    LET P == {i \in 1..Len(s) : s[i] = "/"}
    IN IF P = {} THEN 0 ELSE CHOOSE i \in P : \A j \in P : j <= i

\* Path.name: the final component of the path
path_name(s) == SubSeq(s, LastSlash(s) + 1, Len(s))

\* the final component has a suffix when its last "." is neither its first
\* nor its last character
HasSuffix(n) == 1 < LastDot(n) /\ LastDot(n) < Len(n)

\* Path.stem and Path.suffix, both of the final component
stem(s) ==
    LET n == path_name(s)
    IN IF HasSuffix(n) THEN SubSeq(n, 1, LastDot(n) - 1) ELSE n
suffix(s) ==
    LET n == path_name(s)
    IN IF HasSuffix(n) THEN SubSeq(n, LastDot(n), Len(n)) ELSE <<>>

----------------------------------------------------------------------------
(* The file system: the set of files that exist.  A file is named by the    *)
(* components of its path from the root, so that every spelling of a path  *)
(* names the same file.                                                    *)

upload_dir == <<".", "/", "u", "p", "l", "o", "a", "d", "s">>

\* os.getcwd(): the directory the service is started in, the one that
\* relative paths are read from
cwd == <<"/", "a", "p", "p">>

\* position of the first "/" of a path, 0 when there is none
FirstSlash(s) ==
    IF \A i \in 1..Len(s) : s[i] # "/" THEN 0
    ELSE CHOOSE i \in 1..Len(s) : s[i] = "/" /\ \A j \in 1..(i - 1) : s[j] # "/"

RECURSIVE Split(_)
\* the components of a path string, str.split("/")
Split(s) ==
    LET i == FirstSlash(s)
    IN IF i = 0 THEN <<s>>
       ELSE <<SubSeq(s, 1, i - 1)>> \o Split(SubSeq(s, i + 1, Len(s)))

\* one component followed from the directory that the components so far
\* lead to from the root: an empty component and "." stay there, ".." goes
\* to the parent (the root is its own parent)
Walk(stack, c) ==
    IF c = <<>> \/ c = <<".">> THEN stack
    ELSE IF c # <<".", ".">> THEN Append(stack, c)
    ELSE IF stack = <<>> THEN stack
    ELSE SubSeq(stack, 1, Len(stack) - 1)

RECURSIVE Normalize(_, _)
\* the components the file system resolves a path to; every directory on the
\* way is taken to exist, a missing one is a save that raises
Normalize(stack, parts) ==
    IF parts = <<>> THEN stack
    ELSE Normalize(Walk(stack, Head(parts)), Tail(parts))

IsAbs(s) == s # <<>> /\ s[1] = "/"

\* the file a path string denotes: its components from the root, a relative
\* path being read from the working directory
Resolve(s) ==
    IF IsAbs(s) THEN Normalize(<<>>, Split(s))
    ELSE Normalize(Normalize(<<>>, Split(cwd)), Split(s))

\* Path(dir) / name, resolved: an absolute name replaces dir
PathIn(dir, name) ==
    Resolve(IF IsAbs(name) THEN name ELSE dir \o <<"/">> \o name)

\* a bare filename handed to os.path.exists and os.remove
BarePath(name) == Resolve(name)

\* PDFProcessor.save_uploaded_file: the path written to
save_path(fs, filename, hex) ==
    LET file_path == PathIn(upload_dir, filename)
    IN IF file_path \in fs
       THEN PathIn(upload_dir, stem(filename) \o <<"_">> \o hex \o suffix(filename))
       ELSE file_path

save_uploaded_file(fs, filename, hex) == fs \cup {save_path(fs, filename, hex)}

\* PDFProcessor.delete_file
delete_file(fs, file_path) == IF file_path \in fs THEN fs \ {file_path} ELSE fs

----------------------------------------------------------------------------
(* The vector store: the collection is the set of stored records.          *)

\* mutant: the id leaves the filename out
ChunkId_NoFilename(filename, i) == Str(i)

\* f"{pdf_result.filename}-{i}"
ChunkId(filename, i) == filename \o <<"-">> \o Str(i)

\* the records add_documents builds, enumerate() counting from 0
Chunks(pdf_result) ==
    {[id |-> ChunkId(pdf_result.filename, i - 1),
      filename |-> pdf_result.filename,
      chunk_index |-> i - 1,
      document |-> pdf_result.sentences[i]] : i \in 1..Len(pdf_result.sentences)}

Ids(coll) == {r.id : r \in coll}

\* chromadb Collection.add: a record whose id is already stored is ignored
collection_add(coll, recs) == coll \cup {r \in recs : r.id \notin Ids(coll)}

\* VectorStore.add_documents
add_documents(coll, pdf_result) == collection_add(coll, Chunks(pdf_result))

\* mutant: the ids are looked up and never deleted
delete_by_filename_Keep(coll, filename) == coll

\* mutant: the get carries no where filter
delete_by_filename_All(coll, filename) ==
    LET ids == {r.id : r \in coll}
    IN IF ids # {} THEN {r \in coll : r.id \notin ids} ELSE coll

\* VectorStore.delete_by_filename
delete_by_filename(coll, filename) ==
    LET ids == {r.id : r \in {s \in coll : s.filename = filename}}
    IN IF ids # {} THEN {r \in coll : r.id \notin ids} ELSE coll

\* VectorStore.count_documents
count_documents(coll) == Cardinality(coll)

\* VectorStore.reset
reset(coll) == {}

\* PDFProcessor.process_pdf on a readable body with text
PDFResult(filename, sentences) == [filename |-> filename, sentences |-> sentences]

----------------------------------------------------------------------------
(* POST /query: request validation, retrieval, the short circuit, and the   *)
(* agent run.                                                              *)

\* mutant: the field has no upper bound
QueryRequestValid_NoUpper(top_k) == top_k = None \/ Val(top_k) >= top_k_ge

\* QueryRequest.top_k: int | None = Field(default=None, ge=1, le=20)
QueryRequestValid(top_k) ==
    top_k = None \/ (Val(top_k) >= top_k_ge /\ Val(top_k) <= top_k_le)

\* VectorStore.search: the n_results handed to collection.query
n_results(top_k) == IF top_k = None THEN retrieval_top_k ELSE Val(top_k)

\* VectorStore.search: collection.query answers one result list per query
\* text, holding the best n_results records of the collection, or all of them
\* when it holds fewer.  Which records rank best is the embedding's business;
\* the model keeps the shape of the answer.
search(coll, query, top_k) ==
    [lists |-> 1,
     hits |-> IF count_documents(coll) < n_results(top_k)
              THEN count_documents(coll) ELSE n_results(top_k)]

\* mutant: only the outer list is tested
NoDocuments_OuterOnly(results) == results.lists = 0

\* not search_results["documents"] or not search_results["documents"][0]
NoDocuments(results) == results.lists = 0 \/ results.hits = 0

\* RAGResponse(**kwargs): a pydantic model keeps its declared fields and
\* ignores any other keyword
RAGResponseFields == {"answer", "sources"}
RAGResponse(kwargs) == [f \in (DOMAIN kwargs) \cap RAGResponseFields |-> kwargs[f]]

CannedAnswer ==
    "I don't have any documents to answer your question. Please upload some PDF documents first."

\* the response query returns without running the agent
ShortCircuitResponse ==
    RAGResponse([answer |-> CannedAnswer, sources |-> <<>>, confidence |-> "low"])

\* what the model's output parses to: result.output
AgentOutputs ==
    {RAGResponse([answer |-> "generated", sources |-> <<>>]),
     RAGResponse([answer |-> "generated", sources |-> <<"a.pdf">>])}

\* Agent(..., max_concurrency=settings.concurrency): the bound is handed to
\* the agent; how the agent holds back the runs beyond it is the library's
\* and happens inside agent.run
agent_max_concurrency == Some(concurrency)

\* search_results before a search has returned
NoResults == [lists |-> 0, hits |-> 0]

----------------------------------------------------------------------------
VARIABLES
    index,      \* the records of the collection
    disk,       \* the paths that exist
    pc,         \* per query: "idle", "retrieved" (search has returned),
                \* or "running" (inside await agent.run)
    calls,      \* per query in flight: the collaborator calls it has made
    searched,   \* the arguments of the latest VectorStore.search call
    search_results, \* what search returned to the handler that is between
                \* the search and its next await
    reading,    \* the bag of filenames of the uploads that are at
                \* await file.read()
    last,       \* the request answered last and its response
    stale       \* VectorStore.collection refers to a collection that a reset
                \* deleted and did not create again: every call on it raises

vars == <<index, disk, pc, calls, searched, search_results, reading, last, stale>>

\* The event loop runs a handler from one await to the next: while a query
\* is between the return of search and the await of agent.run, no other
\* handler takes a step.
AtAwait == \A q \in Queries : pc[q] # "retrieved"

Running == {q \in Queries : pc[q] = "running"}

NoBody == RAGResponse([answer |-> "", sources |-> <<>>])

Response(op, status, filename, sentences) ==
    [op |-> op, status |-> status, filename |-> filename, sentences |-> sentences,
     top_k |-> None, calls |-> <<>>, empty |-> FALSE, body |-> NoBody]

QueryResponse(status, top_k, made, empty, body) ==
    [op |-> "query", status |-> status, filename |-> NoName, sentences |-> <<>>,
     top_k |-> top_k, calls |-> made, empty |-> empty, body |-> body]

\* mutant: the failure is caught and answered like an empty retrieval
query_rag_except_Swallow(top_k, made) ==
    QueryResponse(200, top_k, made, FALSE, ShortCircuitResponse)

\* query_rag: except Exception -> HTTPException(status_code=500); nothing in
\* RAGService.query catches what search or agent.run raise
query_rag_except(top_k, made) == QueryResponse(500, top_k, made, FALSE, NoBody)

Init ==
    /\ index = {}
    /\ disk = {}
    /\ pc = [q \in Queries |-> "idle"]
    /\ search_results = NoResults
    /\ reading = EmptyBag
    /\ calls = [q \in Queries |-> <<>>]
    /\ searched = [top_k |-> None, n_results |-> 0]
    /\ last = Response("none", 0, NoName, <<>>)
    /\ stale = FALSE

\* POST /upload up to its await: the check of the filename, then
\* content = await file.read(), which gives the event loop away
Upload(filename) ==
    /\ AtAwait
    /\ UNCHANGED <<index, disk, pc, calls, searched, search_results, stale>>
    /\ IF ~endswith(filename, DOT_PDF)
       THEN /\ last' = Response("upload", 400, filename, <<>>)
            /\ UNCHANGED reading
       ELSE /\ reading' = reading (+) SetToBag({filename})
            /\ UNCHANGED last

\* POST /upload from the return of file.read: the check of the size, save,
\* process, add, count
Uploaded(filename, content, hex, fault) ==
    /\ AtAwait
    /\ BagIn(filename, reading)
    /\ reading' = reading (-) SetToBag({filename})
    /\ UNCHANGED <<pc, calls, searched, search_results, stale>>
    /\ IF content.size > max_upload_size
       THEN /\ last' = Response("upload", 400, filename, <<>>)
            /\ UNCHANGED <<index, disk>>
       ELSE IF fault = "save"
       THEN /\ last' = Response("upload", 500, filename, <<>>)
            /\ UNCHANGED <<index, disk>>
       ELSE /\ disk' = save_uploaded_file(disk, filename, hex)
            /\ IF ~content.readable \/ content.sentences = <<>>
               THEN /\ last' = Response("upload", 500, filename, <<>>)
                    /\ UNCHANGED index
               ELSE IF fault = "add" \/ stale
               THEN /\ last' = Response("upload", 500, filename, content.sentences)
                    /\ UNCHANGED index
               ELSE /\ index' = add_documents(index, PDFResult(filename, content.sentences))
                    /\ last' = Response("upload",
                                        IF fault = "count" THEN 500 ELSE 200,
                                        filename, content.sentences)

\* DELETE /documents/{filename}
Delete(filename, fault) ==
    /\ AtAwait
    /\ UNCHANGED <<pc, calls, searched, search_results, reading, stale>>
    /\ IF fault = "index" \/ stale
       THEN /\ last' = Response("delete", 500, filename, <<>>)
            /\ UNCHANGED <<index, disk>>
       ELSE /\ index' = delete_by_filename(index, filename)
            /\ IF fault = "file"
               THEN /\ last' = Response("delete", 500, filename, <<>>)
                    /\ UNCHANGED disk
               ELSE /\ disk' = delete_file(disk, BarePath(filename))
                    /\ last' = Response("delete", 200, filename, <<>>)

\* POST /reset: VectorStore.reset deletes the collection, then creates it
\* again and rebinds self.collection; a failure between the two leaves the
\* store without its collection
Reset(fault) ==
    /\ AtAwait
    /\ UNCHANGED <<disk, pc, calls, searched, search_results, reading>>
    /\ IF fault = "delete_collection" \/ stale
       THEN /\ last' = Response("reset", 500, NoName, <<>>)
            /\ UNCHANGED <<index, stale>>
       ELSE /\ index' = reset(index)
            /\ IF fault = "get_or_create_collection"
               THEN /\ last' = Response("reset", 500, NoName, <<>>)
                    /\ stale' = TRUE
               ELSE /\ last' = Response("reset", 200, NoName, <<>>)
                    /\ UNCHANGED stale

\* POST /query up to the return of the search: validation of the request
\* body, then RAGService.query line 90
Query(q, question, top_k, fault) ==
    /\ AtAwait
    /\ pc[q] = "idle"
    /\ UNCHANGED <<index, disk, reading, stale>>
    /\ IF ~QueryRequestValid(top_k)
       THEN /\ last' = QueryResponse(422, top_k, <<>>, FALSE, NoBody)
            /\ UNCHANGED <<pc, calls, searched, search_results>>
       ELSE /\ searched' = [top_k |-> top_k, n_results |-> n_results(top_k)]
            /\ IF fault = "search" \/ stale
               THEN /\ last' = query_rag_except(top_k, <<"search">>)
                    /\ UNCHANGED <<pc, calls, search_results>>
               ELSE /\ search_results' = search(index, question, top_k)
                    /\ calls' = [calls EXCEPT ![q] = Append(@, "search")]
                    /\ pc' = [pc EXCEPT ![q] = "retrieved"]
                    /\ UNCHANGED last

\* mutant: agent.run is awaited by a handler that has not searched
Generate_Unretrieved(q) ==
    /\ pc[q] = "idle"
    /\ calls' = [calls EXCEPT ![q] = Append(@, "generate")]
    /\ pc' = [pc EXCEPT ![q] = "running"]
    /\ UNCHANGED <<index, disk, searched, search_results, reading, last, stale>>

\* RAGService.query from the return of the search to its await: the answer
\* without the agent when nothing was retrieved, else the prompt is built
\* from the documents and agent.run is called
Generate(q) ==
    /\ pc[q] = "retrieved"
    /\ search_results' = NoResults
    /\ UNCHANGED <<index, disk, searched, reading, stale>>
    /\ IF NoDocuments(search_results)
       THEN /\ last' = QueryResponse(200, searched.top_k, calls[q],
                                     NoDocuments(search_results),
                                     ShortCircuitResponse)
            /\ calls' = [calls EXCEPT ![q] = <<>>]
            /\ pc' = [pc EXCEPT ![q] = "idle"]
       ELSE /\ calls' = [calls EXCEPT ![q] = Append(@, "generate")]
            /\ pc' = [pc EXCEPT ![q] = "running"]
            /\ UNCHANGED last

\* agent.run returns result.output, or raises; query_rag answers
Generated(q, output, fault) ==
    /\ AtAwait
    /\ pc[q] = "running"
    /\ pc' = [pc EXCEPT ![q] = "idle"]
    /\ calls' = [calls EXCEPT ![q] = <<>>]
    /\ last' = IF fault = "generate"
               THEN query_rag_except(None, calls[q])
               ELSE QueryResponse(200, None, calls[q], FALSE, output)
    /\ UNCHANGED <<index, disk, searched, search_results, reading, stale>>

\* A failing collaborator is an input of the handlers: each value names the
\* call inside the handler's try block that raises.
UploadFaults == {"none", "save", "add", "count"}
DeleteFaults == {"none", "index", "file"}
ResetFaults == {"none", "delete_collection", "get_or_create_collection"}
QueryFaults == {"none", "search"}
AgentFaults == {"none", "generate"}
Questions == {"who", "why"}

\* the whole service
Next ==
    \/ \E f \in UploadNames : BagCardinality(reading) < MaxUploads /\ Upload(f)
    \/ \E f \in UploadNames, c \in Contents, h \in Hexes, fault \in UploadFaults :
          Uploaded(f, c, h, fault)
    \/ \E f \in PathNames, fault \in DeleteFaults : Delete(f, fault)
    \/ \E fault \in ResetFaults : Reset(fault)
    \/ \E q \in Queries, t \in Questions, k \in TopKs, fault \in QueryFaults :
          Query(q, t, k, fault)
    \/ \E q \in Queries : Generate(q)
    \/ \E q \in Queries, o \in AgentOutputs, fault \in AgentFaults :
          Generated(q, o, fault)

Spec == Init /\ [][Next]_vars

\* the document routes alone: no query is sent
StoreNext ==
    \/ \E f \in UploadNames : BagCardinality(reading) < MaxUploads /\ Upload(f)
    \/ \E f \in UploadNames, c \in Contents, h \in Hexes, fault \in UploadFaults :
          Uploaded(f, c, h, fault)
    \/ \E f \in PathNames, fault \in DeleteFaults : Delete(f, fault)
    \/ \E fault \in ResetFaults : Reset(fault)

StoreSpec == Init /\ [][StoreNext]_vars

\* the bodies whose sentences all read the same
PlainContents == {c \in Contents : \A i \in 1..Len(c.sentences) : c.sentences[i] = "x"}

\* the documents whose sentences behind the first are all the same
LeadContents == {c \in Contents : \A i \in 2..Len(c.sentences) : c.sentences[i] = "x"}

\* the document routes, the first sentence varying in one of the two
\* documents
IndexNext ==
    \/ \E f \in UploadNames : BagCardinality(reading) < MaxUploads /\ Upload(f)
    \/ \E f \in UploadNames, c \in Contents, h \in Hexes, fault \in UploadFaults :
          /\ c \in IF f = A_PDF THEN LeadContents ELSE PlainContents
          /\ Uploaded(f, c, h, fault)
    \/ \E f \in PathNames, fault \in DeleteFaults : Delete(f, fault)
    \/ \E fault \in ResetFaults : Reset(fault)

IndexSpec == Init /\ [][IndexNext]_vars

\* concurrent queries against an index that one document is uploaded to and
\* deleted from
QueryNext ==
    \/ BagCardinality(reading) < MaxUploads /\ Upload(A_PDF)
    \/ \E c \in PlainContents, h \in Hexes : Uploaded(A_PDF, c, h, "none")
    \/ \E fault \in DeleteFaults : Delete(A_PDF, fault)
    \/ \E fault \in ResetFaults : Reset(fault)
    \/ \E q \in Queries, t \in Questions, k \in TopKs, fault \in QueryFaults :
          Query(q, t, k, fault)
    \/ \E q \in Queries : Generate(q)
    \/ \E q \in Queries, o \in AgentOutputs, fault \in AgentFaults :
          Generated(q, o, fault)

QuerySpec == Init /\ [][QueryNext]_vars

----------------------------------------------------------------------------
(* Properties of POST /query.                                              *)

Has(seq, x) == \E i \in 1..Len(seq) : seq[i] = x
CountOf(seq, x) == Cardinality({i \in 1..Len(seq) : seq[i] = x})

\* C1: a query whose similarity search returns no documents (no result list,
\* or an empty first one) never invokes the agent: it is answered at once,
\* with status 200 and a generator call count of zero, and no query is handed
\* to the agent behind a search that found nothing.
C1_EmptyRetrievalNeverGenerates ==
    /\ [](last.op = "query" /\ last.empty
            => last.status = 200 /\ CountOf(last.calls, "generate") = 0)
    /\ [][\A q \in Queries :
            pc[q] # "running" /\ pc'[q] = "running"
                => LET r == search(index, "who", searched'.top_k)
                   IN r.lists > 0 /\ r.hits > 0]_vars

\* a query on an empty index has been answered by the short circuit
C1_Witness ==
    /\ last.op = "query" /\ last.empty /\ last.status = 200
    /\ last.calls = <<"search">>
    /\ index = {}

\* C2: the answer to a query whose search returned no documents carries
\* confidence low, no sources and the canned text.
C2_ShortCircuitAnswerIsLowConfidence ==
    last.op = "query" /\ last.empty
        => /\ "confidence" \in DOMAIN last.body
           /\ last.body.confidence = "low"
           /\ last.body.sources = <<>>
           /\ last.body.answer = CannedAnswer

\* C3: within one query the search has returned before the agent is started,
\* whatever the other queries are doing: a query enters agent.run only from
\* the position behind a search that has returned documents to it, in a step
\* of its own later than the step of the search; the calls of a query that
\* runs the agent, and of an answered one that ran it, are the search and
\* then the generation; and no step of another query moves a query that is
\* between its search and its generation.
C3_RetrievalPrecedesGeneration ==
    /\ [](/\ \A q \in Queries :
                /\ pc[q] = "running" => calls[q] = <<"search", "generate">>
                /\ pc[q] = "retrieved" => calls[q] = <<"search">>
                /\ pc[q] = "idle" => calls[q] = <<>>
          /\ last.op = "query" /\ Has(last.calls, "generate")
                => last.calls = <<"search", "generate">>)
    /\ [][\A q \in Queries :
            /\ pc[q] # "running" /\ pc'[q] = "running"
                  => /\ pc[q] = "retrieved"
                     /\ search_results.lists > 0 /\ search_results.hits > 0
                     /\ calls[q] = <<"search">>
                     /\ calls'[q] = <<"search", "generate">>
            /\ pc[q] = "idle" => pc'[q] \in {"idle", "retrieved"}
            /\ pc[q] = "retrieved" /\ pc'[q] = "retrieved"
                  => \A p \in Queries : pc'[p] = pc[p]]_vars

\* a query has searched and is about to start the agent while two other
\* queries, having searched before it, are inside agent.run
C3_Witness ==
    /\ \E q \in Queries : pc[q] = "retrieved" /\ search_results.hits > 0
    /\ Cardinality(Running) >= 2

\* C6: the similarity search is only ever invoked with the caller's top_k when
\* the caller gave one, which then lies in [1, 20], and with the configured
\* default when the caller gave none; a /query with a top_k outside [1, 20]
\* is answered 422 without any call to a collaborator, and no other /query is.
C6_TopKWithinBounds ==
    /\ searched.n_results # 0 =>
          /\ searched.top_k # None =>
                /\ searched.n_results = Val(searched.top_k)
                /\ searched.n_results >= 1 /\ searched.n_results <= 20
          /\ searched.top_k = None => searched.n_results = 5
    /\ last.op = "query" =>
          /\ last.status = 422
                <=> (last.top_k # None /\ (Val(last.top_k) < 1 \/ Val(last.top_k) > 20))
          /\ last.status = 422 => last.calls = <<>>

\* top_k = 21 has just been rejected, after a search with top_k = 20
C6_Witness ==
    /\ last.op = "query" /\ last.status = 422 /\ last.top_k = Some(21)
    /\ searched.top_k = Some(20) /\ searched.n_results = 20

\* C11: a failure of the search or of the agent during a query is answered
\* 500 and never as a normal answer; nothing is retried: a query makes the
\* search call exactly once and the generate call at most once, and makes no
\* generate call after a failed search.
C11_QueryFailuresPropagate ==
    /\ [](/\ \A q \in Queries :
                pc[q] # "idle" => /\ CountOf(calls[q], "search") = 1
                                  /\ CountOf(calls[q], "generate") <= 1
          /\ last.op = "query" /\ last.status # 422
                => /\ CountOf(last.calls, "search") = 1
                   /\ CountOf(last.calls, "generate") <= 1)
    /\ [][/\ \A q \in Queries, t \in Questions :
                (\E fault \in QueryFaults :
                    /\ fault = "search" \/ stale
                    /\ searched'.top_k \in {None, Some(1), Some(20)}
                    /\ Query(q, t, searched'.top_k, fault))
                    => /\ last'.op = "query" /\ last'.status = 500
                       /\ last'.body = NoBody
                       /\ CountOf(last'.calls, "search") = 1
                       /\ CountOf(last'.calls, "generate") = 0
                       /\ pc'[q] = "idle" /\ calls'[q] = <<>>
          /\ \A q \in Queries, o \in AgentOutputs :
                Generated(q, o, "generate")
                    => /\ last'.op = "query" /\ last'.status = 500
                       /\ last'.body = NoBody
                       /\ CountOf(last'.calls, "search") = 1
                       /\ CountOf(last'.calls, "generate") = 1
                       /\ pc'[q] = "idle"]_vars

\* the agent has failed in a query that had found documents, and the caller
\* has been answered 500
C11_Witness ==
    /\ last.op = "query" /\ last.status = 500
    /\ last.calls = <<"search", "generate">>
    /\ last.body = NoBody
    /\ index # {}

----------------------------------------------------------------------------
(* Properties of the document routes and the index.                        *)

ChunksOf(coll, filename) == {r \in coll : r.filename = filename}

\* C4: an upload either succeeds with every chunk of its document in the
\* index, or reports a failure and adds nothing to the index.
C4_UploadAllOrNothing ==
    [][last'.op = "upload" =>
          IF last'.status = 200
          THEN \A i \in 1..Len(last'.sentences) :
                  \E r \in index' :
                      /\ r.filename = last'.filename
                      /\ r.chunk_index = i - 1
                      /\ r.document = last'.sentences[i]
          ELSE index' = index]_vars

C8_ChunkIdsUnique ==
    /\ \A r1, r2 \in index : r1.id = r2.id => r1 = r2
    /\ \A r \in index :
          /\ r.id = ChunkId(r.filename, r.chunk_index)
          /\ \A f \in PathNames, i \in 0..(MaxChunks - 1) :
                ChunkId(f, i) = r.id => f = r.filename /\ i = r.chunk_index

\* two files are stored, each with a chunk at position 1
C8_Witness ==
    \E r1, r2 \in index :
        /\ r1.filename # r2.filename
        /\ r1.chunk_index = 1 /\ r2.chunk_index = 1

\* C9: a delete by filename, whenever the calls it makes on the collection
\* return, removes every chunk of that filename and leaves every other chunk
\* as it was; with no chunk of that filename it changes nothing, and the
\* request is answered without an error unless the file system raises.
C9_DeleteByFilenameFrame ==
    [][\A f \in PathNames :
          /\ (/\ last'.op = "delete" /\ ~stale
              /\ \E fault \in {"none", "file"} : Delete(f, fault)) =>
                /\ index' = {r \in index : r.filename # f}
                /\ ChunksOf(index, f) = {} => index' = index
          /\ (last'.op = "delete" /\ ~stale /\ Delete(f, "none")) =>
                last'.status = 200]_vars

\* a file has been deleted while the chunks of another one stay
C9_Witness ==
    /\ last.op = "delete" /\ last.status = 200
    /\ PathIn(upload_dir, last.filename) \in disk
    /\ ChunksOf(index, last.filename) = {}
    /\ Cardinality(index) = 2

\* C10: after an upload of a file answered 200 and then a successful DELETE
\* of that filename, neither the index nor the upload directory holds an
\* entry of that name.
C10_DeleteRemovesIndexAndFile ==
    [][/\ last.op = "upload" /\ last.status = 200
       /\ last'.op = "delete" /\ last'.status = 200
       /\ last'.filename = last.filename
       => /\ ChunksOf(index', last'.filename) = {}
          /\ PathIn(upload_dir, last'.filename) \notin disk']_vars
====
